---- MODULE Spec2Model ----
(***************************************************************************)
(* Market discovery and price resolution engine of KisanMitra             *)
(* (backend/services/agmarknet.py) and the deadline wrapper of the        *)
(* /api/agmarknet_nearby endpoint (backend/main.py).                      *)
(*                                                                         *)
(* Representation                                                          *)
(*   strings      sequences of one-character strings, so that strip,      *)
(*                lower, split/join and substring tests are computed.     *)
(*   distances    integers in units of 0.002 km (unrounded haversine      *)
(*                value); distance_km fields are in units of 0.01 km.     *)
(*   money        modal prices are whole rupees; the unrounded effective  *)
(*                price is in units of 0.000002 rupee, the rounded one    *)
(*                (effective_price field) in units of 0.01 rupee.         *)
(*   fuel, fees   fuel_rate_per_ton_km and mandi_fees in 0.01 rupee.      *)
(*   time         ticks of half a second.                                 *)
(*   dicts        a JSON object of the price cache is a record            *)
(*                [fields, markets]: `fields' are the keys of a price     *)
(*                record (modal_price, commodity), `markets' the keys     *)
(*                that are normalized market names.  A nested commodity   *)
(*                map has no fields, a legacy flat entry has no markets.  *)
(*                No market of the model is named like a price field.     *)
(***************************************************************************)
EXTENDS Integers, Sequences, FiniteSets, TLC

VARIABLES
    \* ----- find_nearest_mandis / agmarknet_nearby -----
    phase,        \* "idle" | "fetching" | "returned"
    req,          \* arguments of the call in progress
    mandis,       \* capped candidate list (line 824)
    cache,        \* in-memory cache[today] of the call (line 765)
    results,      \* entries appended so far (line 762)
    tasks,        \* futures of the executor (line 969), in submission order
    missCount,    \* number of capped candidates with no cache hit
    timedOut,     \* future.result(timeout=30) raised TimeoutError
    atDeadline,   \* results as they were when the deadline fired
    ranked,       \* value returned by find_nearest_mandis (line 1029)
    response,     \* list handed to the HTTP caller
    priceFile,    \* tmp_mandi_price_cache.json, the object under today
    hashSalt,     \* per-process string hash randomisation
    ncalls,       \* calls started so far
    fileShape,    \* what tmp_mandi_price_cache.json holds when it is read
    tiers,        \* discovery tiers consulted by the call and what each yielded
    \* ----- geocode_market_osm -----
    geoFile,      \* tmp_geocache.json: sequence of [q, place] in insertion order
    lastCallFile, \* .last_geocode: [exists, ts]
    now,          \* wall clock, in ticks
    gpc,          \* per thread: "idle" | "wait" | "calling"
    gq,           \* per thread: query string of the call in progress
    glocal,       \* per thread: cache loaded at the start of the call
    gwake,        \* per thread: earliest tick the outbound call may start
    gknown,       \* per thread: coordinates stored for gq when the call began
    gret,         \* per thread: outcome of the last finished call, and the provider's answer
    callLog,      \* per thread: tick its latest outbound geocoding call started, -1 if none
    stored,       \* coordinates successfully stored so far: q -> place
    ngeo,         \* geocode calls started so far
    \* ----- fetch_prices -----
    fpc,          \* "idle" | "datagov" | "ceda" | "final" | "done"
    fenv,         \* configuration and provider behaviour during the call
    ftried,       \* tiers consulted so far, in order
    fout,         \* outcome of the call: rows returned, or the exception raised
    nfetch,       \* fetch_prices calls started so far
    \* ----- overlapping find_nearest_mandis invocations -----
    ipc,          \* per invocation: "idle" | "loaded" | "resolved"
    icache,       \* per invocation: its in-memory cache[today]
    ikey,         \* per invocation: the (commodity key, market) it resolves
    saved,        \* keys whose price an invocation has persisted
    ninv,         \* invocations started so far
    \* ----- functions applied on their own -----
    pfun,         \* the function that was applied, "none" until it is
    parg,         \* the call: the function to apply and its arguments
    pres          \* the result of the application

mandiVars == <<phase, req, mandis, cache, results, tasks, missCount, timedOut,
               atDeadline, ranked, response, priceFile, hashSalt, ncalls,
               fileShape, tiers>>
geoVars   == <<geoFile, lastCallFile, now, gpc, gq, glocal, gwake, gknown,
               gret, callLog, stored, ngeo>>
fetchVars == <<fpc, fenv, ftried, fout, nfetch>>
invVars   == <<ipc, icache, ikey, saved, ninv>>
pureVars  == <<pfun, parg, pres>>
vars      == <<mandiVars, geoVars, fetchVars, invVars, pureVars>>

-----------------------------------------------------------------------------
(* Bounds of the model *)

MaxCalls    == 2     \* find_nearest_mandis calls per behaviour
MaxGeoCalls == 3     \* geocode_market_osm calls per behaviour
MaxTime     == 3     \* last tick of the clock

-----------------------------------------------------------------------------
(* Strings *)

UpperChars == <<"A", "B", "C", "D", "E", "F", "G", "H", "I", "J", "K", "L", "M",
                "N", "O", "P", "Q", "R", "S", "T", "U", "V", "W", "X", "Y", "Z">>
LowerChars == <<"a", "b", "c", "d", "e", "f", "g", "h", "i", "j", "k", "l", "m",
                "n", "o", "p", "q", "r", "s", "t", "u", "v", "w", "x", "y", "z">>

\* str.lower() on one character
LowerChar(c) ==
    IF \E i \in 1..Len(UpperChars) : UpperChars[i] = c
    THEN LowerChars[CHOOSE i \in 1..Len(UpperChars) : UpperChars[i] = c]
    ELSE c

\* str.lower()
Lower(s) == [i \in 1..Len(s) |-> LowerChar(s[i])]

RECURSIVE LStrip(_)
LStrip(s) == IF s /= <<>> /\ Head(s) = " " THEN LStrip(Tail(s)) ELSE s

RECURSIVE RStrip(_)
RStrip(s) == IF s /= <<>> /\ s[Len(s)] = " " THEN RStrip(SubSeq(s, 1, Len(s) - 1)) ELSE s

\* str.strip()
Strip(s) == RStrip(LStrip(s))

\* " ".join(s.split()) on a string without leading or trailing blanks
RECURSIVE JoinSplit(_)
JoinSplit(s) ==
    IF Len(s) < 2 THEN s
    ELSE IF s[1] = " " /\ s[2] = " " THEN JoinSplit(Tail(s))
    ELSE <<s[1]>> \o JoinSplit(Tail(s))

\* `sub in s'
Contains(sub, s) ==
    \E i \in 1..(Len(s) - Len(sub) + 1) : SubSeq(s, i, i + Len(sub) - 1) = sub

\* _normalize_market_name: " ".join(str(name or "").strip().lower().split())
normalize_market_name(name) == JoinSplit(Strip(Lower(Strip(name))))

\* commodity_key = str(commodity or "").strip().lower()
CommodityKey(commodity) == Lower(Strip(commodity))

\* position-weighted character code of a string, the input of the hash
RECURSIVE StrCode(_)
StrCode(s) ==
    IF s = <<>> THEN 0
    ELSE LET c == LowerChar(Head(s))
             k == IF \E i \in 1..26 : LowerChars[i] = c
                  THEN CHOOSE i \in 1..26 : LowerChars[i] = c
                  ELSE 27
         IN  (k + 3 * StrCode(Tail(s))) % 1000

\* abs(hash((commodity, norm))) % 1000; the hash of a str is salted per process
PyHashSeed(salt, commodity, norm) ==
    (StrCode(commodity) * 7 + StrCode(norm) * 13 + salt * 101) % 1000

-----------------------------------------------------------------------------
(* The strings of the inputs: market names and commodities *)

N_Mandi  == <<"M", "a", "n", "d", "i">>
N_mandi  == <<" ", "m", "a", "n", "d", "i">>
N_KMandi == <<"K", " ", " ", "M", "a", "n", "d", "i">>
N_Wheat  == <<"W", "h", "e", "a", "t">>
N_Shop   == <<"S", "h", "o", "p">>
C_Wheat  == <<"W", "h", "e", "a", "t">>
C_wheat  == <<" ", "w", "h", "e", "a", "t">>
C_Rice   == <<"R", "i", "c", "e">>

\* every string of the inputs, and the values the string functions take on them,
\* computed once (f @@ <<>> is f, tabulated)
KnownStrings == {N_Mandi, N_mandi, N_KMandi, N_Wheat, N_Shop, C_Wheat, C_wheat, C_Rice, <<>>}
NormMemo == ([n \in KnownStrings |-> normalize_market_name(n)]) @@ <<>>
KeyMemo  == ([n \in KnownStrings |-> CommodityKey(n)]) @@ <<>>
Norm(n) == IF n \in KnownStrings THEN NormMemo[n] ELSE normalize_market_name(n)
Key(n)  == IF n \in KnownStrings THEN KeyMemo[n] ELSE CommodityKey(n)

-----------------------------------------------------------------------------
(* Numbers *)

Min(a, b) == IF a < b THEN a ELSE b

\* round(x / m): nearest multiple, ties to the even quotient
RoundDiv(x, m) ==
    LET q == x \div m
        r == x % m
    IN  IF 2 * r < m THEN q
        ELSE IF 2 * r > m THEN q + 1
        ELSE IF q % 2 = 0 THEN q ELSE q + 1

\* a mis-rounding that always goes up a cent
round2_up(d) == d \div 5 + 1

\* round(distance, 2): 0.002 km units to 0.01 km units
round2(d) == RoundDiv(d, 5)

\* places a provider or the geocode cache can name; 0 stands for "no coordinates"
NoPlace == 0
Places  == 1..5

\* _haversine_km(origin, (lat, lon)) of each place, in 0.002 km
\*   5.000, 9.996, 10.000, 10.004, 10.006 km
haversine_km(p) == <<2500, 4998, 5000, 5002, 5003>>[p]

\* effective price computed from the rounded distance_km field
effective_price_from_field(modal, distance, fuel, fees) ==
    RoundDiv(modal * 500000 - (round2(distance) * 5) * fuel - fees * 500, 5000)

\* lines 873-875 / 996-998 and round(effective_price, 2)
\*   per_quintal_fuel = fuel/10, per_quintal_mandi_fees = fees/10
effective_price(modal, distance, fuel, fees) ==
    RoundDiv(modal * 500000 - distance * fuel - fees * 500, 5000)

-----------------------------------------------------------------------------
(* Python dicts of the price cache *)

NoFields == [present |-> FALSE, modal_price |-> 0, commodity |-> <<>>,
             origin |-> "none", for_ck |-> <<>>, for_norm |-> <<>>]

\* {} and None: both are falsy at every place the code tests them
EmptyDict == [fields |-> NoFields, markets |-> <<>>]

\* dict truthiness: a dict with at least one key
Truthy(d) == d.fields.present \/ DOMAIN d.markets /= {}

\* d[k] = v on a mapping
Put(f, k, v) == [x \in (DOMAIN f) \cup {k} |-> IF x = k THEN v ELSE f[x]]

\* d.get(k) for a key that is a normalized market name
GetMarket(d, k) == IF k \in DOMAIN d.markets THEN d.markets[k] ELSE EmptyDict

\* a price record as a dict; for_ck/for_norm remember the cache key it was stored under
PriceEntry(modal, commodity, origin, ck, norm) ==
    [fields  |-> [present |-> TRUE, modal_price |-> modal, commodity |-> commodity,
                  origin |-> origin, for_ck |-> ck, for_norm |-> norm],
     markets |-> <<>>]

\* float(cached.get("modal_price") or cached.get("Modal Price") or cached.get("modal", 0) or 0)
modal_of(d) == IF d.fields.present THEN d.fields.modal_price ELSE 0

\* a lookup by market name alone, whatever the commodity the price was stored for
cached_lookup_any(day_cache, commodity, norm) ==
    IF \E k \in DOMAIN day_cache : norm \in DOMAIN day_cache[k].markets
    THEN [val |-> day_cache[CHOOSE k \in DOMAIN day_cache :
                               norm \in DOMAIN day_cache[k].markets].markets[norm],
          via |-> "nested"]
    ELSE IF norm \in DOMAIN day_cache /\ day_cache[norm].fields.present
         THEN [val |-> day_cache[norm], via |-> "legacy"]
         ELSE [val |-> EmptyDict, via |-> "none"]

\* lines 845-859: nested lookup, else the legacy entry if its commodity matches
cached_lookup(day_cache, commodity, norm) ==
    LET commodity_key == Key(commodity)
    IN  IF commodity_key \in DOMAIN day_cache
        THEN [val |-> GetMarket(day_cache[commodity_key], norm), via |-> "nested"]
        ELSE IF /\ norm \in DOMAIN day_cache
                /\ Truthy(day_cache[norm])
                /\ Key(day_cache[norm].fields.commodity) = commodity_key
             THEN [val |-> day_cache[norm], via |-> "legacy"]
             ELSE [val |-> EmptyDict, via |-> "none"]

\* lines 1012-1017: cache[today][commodity_key][norm] = price_entry
cache_put(day_cache, commodity, norm, price_entry) ==
    LET commodity_key == Key(commodity)
        old == IF commodity_key \in DOMAIN day_cache
               THEN day_cache[commodity_key] ELSE EmptyDict
    IN  Put(day_cache, commodity_key,
            [fields |-> old.fields, markets |-> Put(old.markets, norm, price_entry)])

-----------------------------------------------------------------------------
(* Sorting *)

\* the key of sorted(): distance_km, then (for the ranking) -effective_price
KeyLess(a, b, byRank) ==
    \/ a.distance_km < b.distance_km
    \/ /\ byRank
       /\ a.distance_km = b.distance_km
       /\ a.effective_price > b.effective_price

RECURSIVE InsertBy(_, _, _)
InsertBy(e, s, byRank) ==
    IF s = <<>> THEN <<e>>
    ELSE IF KeyLess(e, Head(s), byRank) THEN <<e>> \o s
    ELSE <<Head(s)>> \o InsertBy(e, Tail(s), byRank)

\* sorted(s, key=...): stable
RECURSIVE sorted(_, _)
sorted(s, byRank) ==
    IF s = <<>> THEN <<>>
    ELSE InsertBy(s[Len(s)], sorted(SubSeq(s, 1, Len(s) - 1), byRank), byRank)

\* s[:n]
Take(s, n) == SubSeq(s, 1, Min(n, Len(s)))

\* [x for x in s if x in keep]
RECURSIVE FilterSeq(_, _)
FilterSeq(s, keep) ==
    IF s = <<>> THEN <<>>
    ELSE (IF Head(s) \in keep THEN <<Head(s)>> ELSE <<>>) \o FilterSeq(Tail(s), keep)

-----------------------------------------------------------------------------
(* Discovery tiers *)

Candidate(name, place, source) ==
    [name |-> name, place |-> place,
     distance_km |-> IF place = NoPlace THEN -1 ELSE round2(haversine_km(place)),
     source |-> source]

\* lines 661-668: keep the first feature of each normalized name
RECURSIVE DedupeFirst(_, _)
DedupeFirst(out, seen) ==
    IF out = <<>> THEN <<>>
    ELSE LET n == normalize_market_name(Head(out).name)
         IN  IF n = <<>> \/ n \in seen
             THEN DedupeFirst(Tail(out), seen)
             ELSE <<Head(out)>> \o DedupeFirst(Tail(out), seen \cup {n})

\* _search_mandis_geoapify on the features of the provider's final answer
search_mandis_geoapify(features, radius_km) ==
    LET out     == [i \in 1..Len(features) |->
                       Candidate(features[i].name, features[i].place, "none")]
        deduped == DedupeFirst(out, {})
        inside  == {d \in {deduped[i] : i \in 1..Len(deduped)} :
                       d.distance_km /= -1 /\ d.distance_km <= radius_km * 100}
    IN  sorted(FilterSeq(deduped, inside), FALSE)

\* lines 716-738: Overpass elements
RECURSIVE OverpassScan(_, _, _)
OverpassScan(elements, seen, radius_km) ==
    IF elements = <<>> THEN <<>>
    ELSE LET el   == Head(elements)
             norm == normalize_market_name(el.name)
             rest(s) == OverpassScan(Tail(elements), s, radius_km)
         IN  IF el.name = <<>> THEN rest(seen)
             ELSE IF norm \in seen THEN rest(seen)
             ELSE IF el.place = NoPlace THEN rest(seen \cup {norm})
             ELSE IF haversine_km(el.place) > radius_km * 500 THEN rest(seen \cup {norm})
             ELSE <<Candidate(el.name, el.place, "none")>> \o rest(seen \cup {norm})

search_mandis_overpass(elements, radius_km) ==
    sorted(OverpassScan(elements, {}, radius_km), FALSE)

\* lines 745-757: candidates derived from the geocode cache
RECURSIVE GeocacheScan(_, _)
GeocacheScan(entries, radius_km) ==
    IF entries = <<>> THEN <<>>
    ELSE LET e == Head(entries)
         IN  (IF e.place /= NoPlace /\ haversine_km(e.place) <= radius_km * 500
              THEN <<Candidate(e.q, e.place, "geocache")>> ELSE <<>>)
             \o GeocacheScan(Tail(entries), radius_km)

search_mandis_geocache(entries, radius_km) ==
    sorted(GeocacheScan(entries, radius_km), FALSE)

\* a chain that moves on to the next tier when no candidate of a tier has a valid name
discover_validated(features, elements, entries, radius_km) ==
    LET a == search_mandis_geoapify(features, radius_km)
        b == search_mandis_overpass(elements, radius_km)
        valid(ms) == \E i \in 1..Len(ms) : LET s == Lower(Strip(ms[i].name))
                                           IN  s /= <<>> /\ Len(s) >= 5
    IN  IF valid(a) THEN a
        ELSE IF valid(b) THEN b
        ELSE search_mandis_geocache(entries, radius_km)

\* lines 673-761: the fallback chain
discover(features, elements, entries, radius_km) ==
    LET a == search_mandis_geoapify(features, radius_km)
        b == search_mandis_overpass(elements, radius_km)
    IN  IF a /= <<>> THEN a
        ELSE IF b /= <<>> THEN b
        ELSE search_mandis_geocache(entries, radius_km)

\* a chain that consults every tier, whatever the tiers before it yielded
consulted_all(features, elements, entries, radius_km) ==
    LET a == search_mandis_geoapify(features, radius_km)
        b == search_mandis_overpass(elements, radius_km)
        c == search_mandis_geocache(entries, radius_km)
    IN  [geoapify |-> Len(a),
         overpass_queried |-> TRUE, overpass |-> Len(b),
         geocache_used |-> TRUE, geocache |-> Len(c)]

\* lines 673, 675 and 743: the tiers the chain consults and the number of candidates
\* each yields; `if not mandis' guards the Overpass block and the geocache block
consulted(features, elements, entries, radius_km) ==
    LET a     == search_mandis_geoapify(features, radius_km)
        ask_b == (a = <<>>)
        b     == IF ask_b THEN search_mandis_overpass(elements, radius_km) ELSE <<>>
        ask_c == (a = <<>> /\ b = <<>>)
        c     == IF ask_c THEN search_mandis_geocache(entries, radius_km) ELSE <<>>
    IN  [geoapify |-> Len(a),
         overpass_queried |-> ask_b, overpass |-> Len(b),
         geocache_used |-> ask_c, geocache |-> Len(c)]

NoTiers == [geoapify |-> 0, overpass_queried |-> FALSE, overpass |-> 0,
            geocache_used |-> FALSE, geocache |-> 0]

-----------------------------------------------------------------------------
(* Candidate validation, dedup and cap *)

blacklist_tokens ==
    << <<"s", "h", "o", "p">>,
       <<"s", "t", "o", "r", "e">>,
       <<"g", "r", "o", "c", "e", "r", "y">>,
       <<"s", "u", "p", "e", "r", "m", "a", "r", "k", "e", "t">>,
       <<"m", "o", "t", "h", "e", "r", " ", "d", "a", "i", "r", "y">>,
       <<"s", "a", "f", "a", "l">>,
       <<"p", "u", "r", "e", " ", "v", "e", "g">>,
       <<"r", "e", "s", "t", "a", "u", "r", "a", "n", "t">>,
       <<"h", "o", "t", "e", "l">>,
       <<"f", "a", "c", "t", "o", "r", "y">>,
       <<"o", "f", "f", "i", "c", "e">>,
       <<"c", "o", "m", "p", "a", "n", "y">>,
       <<"s", "o", "f", "t", "w", "a", "r", "e">>,
       <<"s", "o", "l", "u", "t", "i", "o", "n", "s">>,
       <<"m", "a", "l", "l">>,
       <<"m", "a", "r", "k", "e", "t", "p", "l", "a", "c", "e">>,
       <<"v", "e", "g", "e", "t", "a", "b", "l", "e", " ", "s", "h", "o", "p">>,
       <<"f", "r", "u", "i", "t", " ", "s", "t", "a", "l", "l", "s">>,
       <<"f", "r", "u", "i", "t", "s">>,
       <<"d", " ", "m", "a", "r", "t">>,
       <<"d", "m", "a", "r", "t">> >>

accept_tokens ==
    << <<"m", "a", "n", "d", "i">>,
       <<"m", "a", "r", "k", "e", "t">>,
       <<"m", "a", "n", "d", "a", "i">>,
       <<"b", "a", "z", "a", "a", "r">>,
       <<"h", "a", "a", "t">>,
       <<"s", "a", "b", "z", "i">>,
       <<"w", "h", "o", "l", "e", "s", "a", "l", "e">>,
       <<"m", "a", "n", "d", "i", ".">> >>

\* a validator without the list of marketplace words
is_valid_by_length(n) ==
    LET s == Lower(Strip(n))
    IN  IF n = <<>> THEN FALSE
        ELSE IF \E i \in 1..Len(blacklist_tokens) : Contains(blacklist_tokens[i], s) THEN FALSE
        ELSE Len(s) >= 5

\* lines 772-793
is_valid_market_name(n) ==
    LET s == Lower(Strip(n))
    IN  IF n = <<>> THEN FALSE
        ELSE IF \E i \in 1..Len(blacklist_tokens) : Contains(blacklist_tokens[i], s) THEN FALSE
        ELSE IF \E i \in 1..Len(accept_tokens) : Contains(accept_tokens[i], s) THEN TRUE
        ELSE Len(s) >= 5

\* a filter that removes repeated names and nothing else
RECURSIVE FilterDedupOnly(_, _)
FilterDedupOnly(ms, seen_names) ==
    IF ms = <<>> THEN <<>>
    ELSE LET norm == normalize_market_name(Head(ms).name)
         IN  IF norm = <<>> \/ norm \in seen_names
             THEN FilterDedupOnly(Tail(ms), seen_names)
             ELSE <<Head(ms)>> \o FilterDedupOnly(Tail(ms), seen_names \cup {norm})

\* lines 796-813
RECURSIVE FilterCandidates(_, _)
FilterCandidates(ms, seen_names) ==
    IF ms = <<>> THEN <<>>
    ELSE LET m    == Head(ms)
             norm == normalize_market_name(m.name)
         IN  IF norm = <<>> \/ norm \in seen_names
             THEN FilterCandidates(Tail(ms), seen_names)
             ELSE (IF is_valid_market_name(m.name) \/ m.source = "geocache"
                   THEN <<m>> ELSE <<>>)
                  \o FilterCandidates(Tail(ms), seen_names \cup {norm})

MAX_MARKETS_TO_QUERY == 6

\* the accepted candidates by distance, all of them
cap_uncapped(ms) == sorted(FilterCandidates(ms, {}), FALSE)

\* line 824 (line 828 leaves an empty list empty)
cap_candidates(ms) == Take(sorted(FilterCandidates(ms, {}), FALSE), MAX_MARKETS_TO_QUERY)

-----------------------------------------------------------------------------
(* Inputs *)

Feature(name, place) == [name |-> name, place |-> place]

\* answers of the Geoapify places search (the empty one: no key, error, no feature)
GeoapifyAnswers ==
    { <<>>,
      <<Feature(N_Mandi, 3), Feature(N_KMandi, 3)>>,
      <<Feature(N_Wheat, 1), Feature(N_Mandi, 4), Feature(N_Shop, 2)>>,
      <<Feature(N_Mandi, 2), Feature(N_mandi, 1), Feature(N_KMandi, 5)>>,
      <<Feature(N_Shop, 2)>> }

\* answers of the Overpass endpoints
OverpassAnswers ==
    { <<>>,
      <<Feature(N_Mandi, 3), Feature(N_Wheat, 2), Feature(N_KMandi, NoPlace)>> }

\* arguments of find_nearest_mandis as agmarknet_nearby passes them
Request(commodity, radius_km, top_n, fuel, fees) ==
    [commodity |-> commodity, radius_km |-> radius_km, top_n |-> top_n,
     fuel_rate_per_ton_km |-> fuel, mandi_fees |-> fees]

Requests ==
    { Request(C_Wheat, 10, 5, 5, 0),
      Request(C_Rice, 10, 1, 2000, 12),
      Request(C_wheat, 10, 5, 1, 0) }

NoRequest == Request(<<>>, 0, 0, 0, 0)

\* outcomes of _fetch_for_market: no usable row, or the best row's modal price
LookupOutcomes == { [found |-> FALSE, modal |-> 0], [found |-> TRUE, modal |-> 2000] }

\* contents of the price cache file under today's date when the process starts:
\* nothing, or one entry of the old flat shape date -> market -> record
InitialPriceFiles ==
    { <<>>,
      Put(<<>>, normalize_market_name(N_Wheat),
          PriceEntry(1500, C_Rice, "legacy", CommodityKey(C_Rice),
                     normalize_market_name(N_Wheat))) }

GeoEntry(q, place) == [q |-> q, place |-> place]

InitialGeoFiles == { <<GeoEntry(N_Shop, 3), GeoEntry(N_Mandi, 1)>> }

HashSalts == {1}

\* the strings that are hashed: the inputs, their normal forms and their keys
HashedStrings ==
    KnownStrings \cup {NormMemo[n] : n \in KnownStrings} \cup {KeyMemo[n] : n \in KnownStrings}
SeedMemo ==
    ([x \in HashSalts \X HashedStrings \X HashedStrings |-> PyHashSeed(x[1], x[2], x[3])]) @@ <<>>
Seed(salt, a, b) ==
    IF <<salt, a, b>> \in DOMAIN SeedMemo THEN SeedMemo[<<salt, a, b>>] ELSE PyHashSeed(salt, a, b)

Threads == {1, 2}

GeoQueries == {N_Mandi, N_Wheat}

\* lines 673-828: the capped candidate list of a call
CandidatesFor(r, features, elements, entries) ==
    cap_candidates(discover(features, elements, entries, r.radius_km))

\* the geocode cache files the endpoint model starts from
GeoFilesKnown == InitialGeoFiles \cup {<<>>}

CandidateMemo ==
    ([x \in Requests \X GeoapifyAnswers \X OverpassAnswers \X GeoFilesKnown |->
        CandidatesFor(x[1], x[2], x[3], x[4])]) @@ <<>>

\* the number of candidates the Geoapify tier yields, per request and answer
GeoapifyMemo ==
    ([x \in Requests \X GeoapifyAnswers |-> Len(search_mandis_geoapify(x[2], x[1].radius_km))]) @@ <<>>

TiersMemo ==
    ([x \in Requests \X GeoapifyAnswers \X OverpassAnswers \X GeoFilesKnown |->
        consulted(x[2], x[3], x[4], x[1].radius_km)]) @@ <<>>

\* what the price cache file can hold when _load_cache reads it:
\*   absent       no file
\*   unparseable  text that is not JSON
\*   object       a JSON object whose value under today, if any, is an object
\*   array        the JSON value []
\*   null         the JSON value null
\*   day_array    a JSON object whose value under today is a non-empty array
FileShapes == {"absent", "unparseable", "object", "array", "null", "day_array"}

\* lines 556-562 and 765-768: cache[today] after the load; an absent or
\* unparseable file gives {}
load_cache(shape, file) == IF shape = "object" THEN file ELSE <<>>

\* line 767 raises TypeError on a JSON value that is not an object; line 847
\* raises AttributeError, for the first candidate, when cache[today] is not a dict
load_raises(shape, ms) ==
    \/ shape \in {"array", "null"}
    \/ shape = "day_array" /\ ms /= <<>>

-----------------------------------------------------------------------------
(* Cache-hit / cache-miss partition and result entries *)

\* lines 866-872 and 989-995: entries without coordinates or beyond the radius are skipped
EntryOK(m, r) == m.place /= NoPlace /\ haversine_km(m.place) <= r.radius_km * 500

\* lines 876-885 and 999-1008
Entry(m, idx, price, r, via) ==
    [city            |-> m.name,
     modal_price     |-> modal_of(price),
     distance_km     |-> round2(haversine_km(m.place)),
     effective_price |-> effective_price(modal_of(price), haversine_km(m.place),
                                         r.fuel_rate_per_ton_km, r.mandi_fees),
     place           |-> m.place,
     raw             |-> price,
     idx             |-> idx,
     via             |-> via]

Lookup(m, day_cache, r) == cached_lookup(day_cache, r.commodity, Norm(m.name))

IsHit(m, day_cache, r) == Truthy(Lookup(m, day_cache, r).val)

\* hits that supply no result
cached_results_none(ms, i, day_cache, r) == <<>>

\* lines 860-885: the immediate results of the cached candidates
RECURSIVE cached_results(_, _, _, _)
cached_results(ms, i, day_cache, r) ==
    IF i > Len(ms) THEN <<>>
    ELSE (IF IsHit(ms[i], day_cache, r) /\ EntryOK(ms[i], r)
          THEN <<Entry(ms[i], i, Lookup(ms[i], day_cache, r).val, r,
                       Lookup(ms[i], day_cache, r).via)>>
          ELSE <<>>)
         \o cached_results(ms, i + 1, day_cache, r)

\* a partition that queries every candidate, cached or not
RECURSIVE to_query_all(_, _, _, _)
to_query_all(ms, i, day_cache, r) ==
    IF i > Len(ms) THEN <<>> ELSE <<i>> \o to_query_all(ms, i + 1, day_cache, r)

\* lines 886-887: indices (into mandis) of the candidates left to query
RECURSIVE to_query_of(_, _, _, _)
to_query_of(ms, i, day_cache, r) ==
    IF i > Len(ms) THEN <<>>
    ELSE (IF IsHit(ms[i], day_cache, r) THEN <<>> ELSE <<i>>)
         \o to_query_of(ms, i + 1, day_cache, r)

\* line 968: max_workers=min(6, len(to_query))
max_workers(n) == Min(6, n)

\* lines 974-984: the synthetic placeholder
synthetic_modal(salt, commodity, norm) == 1800 + (Seed(salt, commodity, norm) % 1200)

\* the price entry the coordinator works with for a finished lookup
price_entry_of(out, salt, commodity, norm) ==
    IF out.found
    THEN PriceEntry(out.modal, commodity, "provider", Key(commodity), norm)
    ELSE PriceEntry(synthetic_modal(salt, commodity, norm), <<>>, "synthetic",
                    Key(commodity), norm)

\* a ranking by distance alone
rank_by_distance(rs, top_n) == Take(sorted(rs, FALSE), top_n)

\* a ranking that returns the whole list
rank_untruncated(rs, top_n) == sorted(rs, TRUE)

\* lines 1028-1029
rank(rs, top_n) == Take(sorted(rs, TRUE), top_n)

\* an endpoint that hands over what find_nearest_mandis returns, deadline or not
endpoint_results_late(timed_out, returned) == returned

\* main.py 1612-1618: on TimeoutError the results are []
endpoint_results(timed_out, returned) == IF timed_out THEN <<>> ELSE returned

-----------------------------------------------------------------------------
(* find_nearest_mandis behind agmarknet_nearby *)

MandiInit ==
    /\ phase = "idle"
    /\ req = NoRequest
    /\ mandis = <<>>
    /\ cache = <<>>
    /\ results = <<>>
    /\ tasks = <<>>
    /\ missCount = 0
    /\ timedOut = FALSE
    /\ atDeadline = <<>>
    /\ ranked = <<>>
    /\ response = <<>>
    /\ priceFile \in InitialPriceFiles
    /\ hashSalt \in HashSalts
    /\ ncalls = 0
    /\ tiers = NoTiers

GeoIdle ==
    /\ lastCallFile = [exists |-> FALSE, ts |-> 0]
    /\ now = 0
    /\ gpc = [t \in Threads |-> "idle"]
    /\ gq = [t \in Threads |-> <<>>]
    /\ glocal = [t \in Threads |-> <<>>]
    /\ gwake = [t \in Threads |-> 0]
    /\ gknown = [t \in Threads |-> NoPlace]
    /\ gret = [t \in Threads |-> [called |-> FALSE, place |-> NoPlace, answer |-> NoPlace]]
    /\ callLog = [t \in Threads |-> -1]
    /\ stored = <<>>
    /\ ngeo = 0

\* agmarknet_nearby submits find_nearest_mandis (main.py 1613-1614), which runs
\* discovery, validation, the cache load and the hit/miss partition and submits
\* the lookups of the misses (agmarknet.py 673-969)
Start(r, features, elements) ==
    /\ phase \in {"idle", "returned", "raised"}
    /\ ncalls < MaxCalls
    /\ GeoapifyMemo[<<r, features>>] > 0 => elements = <<>>
    /\ tiers' = IF geoFile \in GeoFilesKnown
                THEN TiersMemo[<<r, features, elements, geoFile>>]
                ELSE consulted(features, elements, geoFile, r.radius_km)
    /\ \E ms \in {IF geoFile \in GeoFilesKnown
                   THEN CandidateMemo[<<r, features, elements, geoFile>>]
                   ELSE CandidatesFor(r, features, elements, geoFile)} :
       \E day \in {load_cache(fileShape, priceFile)} :
       \E tq \in {to_query_of(ms, 1, day, r)} :
           /\ mandis' = ms
           /\ cache' = day
           /\ IF load_raises(fileShape, ms)
              THEN /\ phase' = "raised"
                   /\ results' = <<>>
                   /\ tasks' = <<>>
                   /\ missCount' = 0
              ELSE /\ phase' = "fetching"
                   /\ results' = cached_results(ms, 1, day, r)
                   /\ tasks' = [k \in 1..Len(tq) |->
                                  [idx |-> tq[k], st |-> "queued",
                                   out |-> [found |-> FALSE, modal |-> 0]]]
                   /\ missCount' = Cardinality({i \in 1..Len(ms) : ~IsHit(ms[i], day, r)})
    /\ req' = r
    /\ timedOut' = FALSE
    /\ atDeadline' = <<>>
    /\ ranked' = <<>>
    /\ response' = <<>>
    /\ ncalls' = ncalls + 1
    /\ UNCHANGED <<priceFile, hashSalt, fileShape, geoVars, fetchVars, invVars, pureVars>>

Running == {i \in 1..Len(tasks) : tasks[i].st = "running"}

\* a pool thread takes the oldest queued work item (ThreadPoolExecutor, line 968-969)
WorkerStart(i) ==
    /\ phase = "fetching"
    /\ i \in 1..Len(tasks)
    /\ tasks[i].st = "queued"
    /\ \A j \in 1..(i - 1) : tasks[j].st /= "queued"
    /\ Cardinality(Running) < max_workers(Len(tasks))
    /\ tasks' = [tasks EXCEPT ![i].st = "running"]
    /\ UNCHANGED <<phase, req, mandis, cache, results, missCount, timedOut, atDeadline,
                   ranked, response, priceFile, hashSalt, ncalls, fileShape, tiers,
                   geoVars, fetchVars, invVars, pureVars>>

\* _fetch_for_market returns (lines 889-964)
WorkerFinish(i, out) ==
    /\ phase = "fetching"
    /\ i \in 1..Len(tasks)
    /\ tasks[i].st = "running"
    /\ tasks' = [tasks EXCEPT ![i].st = "finished", ![i].out = out]
    /\ UNCHANGED <<phase, req, mandis, cache, results, missCount, timedOut, atDeadline,
                   ranked, response, priceFile, hashSalt, ncalls, fileShape, tiers,
                   geoVars, fetchVars, invVars, pureVars>>

\* one iteration of the as_completed loop (lines 970-1019)
Consume(i) ==
    /\ phase = "fetching"
    /\ i \in 1..Len(tasks)
    /\ tasks[i].st = "finished"
    /\ LET m     == mandis[tasks[i].idx]
           norm  == Norm(m.name)
           price == price_entry_of(tasks[i].out, hashSalt, req.commodity, norm)
       IN  IF EntryOK(m, req)
           THEN /\ results' = Append(results, Entry(m, tasks[i].idx, price, req, "fresh"))
                /\ cache' = cache_put(cache, req.commodity, norm, price)
           ELSE UNCHANGED <<results, cache>>
    /\ tasks' = [tasks EXCEPT ![i].st = "consumed"]
    /\ UNCHANGED <<phase, req, mandis, missCount, timedOut, atDeadline,
                   ranked, response, priceFile, hashSalt, ncalls, fileShape, tiers,
                   geoVars, fetchVars, invVars, pureVars>>

\* future.result(timeout=30) raises TimeoutError (main.py 1615-1616)
Timeout ==
    /\ phase = "fetching"
    /\ ~timedOut
    /\ timedOut' = TRUE
    /\ atDeadline' = results
    /\ UNCHANGED <<phase, req, mandis, cache, results, tasks, missCount,
                   ranked, response, priceFile, hashSalt, ncalls, fileShape, tiers,
                   geoVars, fetchVars, invVars, pureVars>>

\* a coordinator that does not wait for the lookups
consumed_or_not(ts) == TRUE

\* lines 968-1019: the `with' block and the as_completed loop end when every
\* submitted lookup has completed and its result has been handled
all_consumed(ts) == \A i \in 1..Len(ts) : ts[i].st = "consumed"

\* find_nearest_mandis persists, ranks and returns (lines 1021-1029): _save_cache
\* rewrites the file from the in-memory cache, which is the loaded object; the
\* executor of agmarknet_nearby is left and the endpoint answers (main.py 1613-1628)
Finish ==
    /\ phase = "fetching"
    /\ all_consumed(tasks)
    /\ priceFile' = IF fileShape = "day_array" THEN priceFile ELSE cache
    /\ fileShape' = IF fileShape = "day_array" THEN fileShape ELSE "object"
    /\ ranked' = rank(results, req.top_n)
    /\ response' = endpoint_results(timedOut, rank(results, req.top_n))
    /\ phase' = "returned"
    /\ UNCHANGED <<req, mandis, cache, results, tasks, missCount, timedOut, atDeadline,
                   hashSalt, ncalls, tiers, geoVars, fetchVars, invVars, pureVars>>

MandiNext ==
    \/ \E r \in Requests, features \in GeoapifyAnswers, elements \in OverpassAnswers :
          Start(r, features, elements)
    \/ \E i \in 1..MAX_MARKETS_TO_QUERY : WorkerStart(i)
    \/ \E i \in 1..MAX_MARKETS_TO_QUERY, out \in LookupOutcomes : WorkerFinish(i, out)
    \/ \E i \in 1..MAX_MARKETS_TO_QUERY : Consume(i)
    \/ Timeout
    \/ Finish

-----------------------------------------------------------------------------
(* geocode_market_osm, called from concurrent threads *)

\* the least spacing of outbound geocoding calls: 1.0 s (lines 371-372), in ticks
MIN_INTERVAL == 2

\* cache[q] if q in cache
GeoLookup(entries, q) ==
    IF \E i \in 1..Len(entries) : entries[i].q = q
    THEN entries[CHOOSE i \in 1..Len(entries) : entries[i].q = q].place
    ELSE NoPlace

\* cache[q] = {"lat": lat, "lon": lon, ...}
GeoPut(entries, q, place) ==
    IF \E i \in 1..Len(entries) : entries[i].q = q
    THEN [i \in 1..Len(entries) |->
             IF entries[i].q = q THEN GeoEntry(q, place) ELSE entries[i]]
    ELSE Append(entries, GeoEntry(q, place))

\* a geocoder that reports coordinates only when both files were written
geocode_return_if_persisted(place, cacheWritten, stampWritten) ==
    IF cacheWritten /\ stampWritten THEN place ELSE NoPlace

\* lines 389-400: the write errors are swallowed and (lat, lon) is returned
geocode_return(place, cacheWritten, stampWritten) == place

\* lines 349-363: load the cache file; a hit returns at once
GeoBegin(t, q) ==
    /\ gpc[t] = "idle"
    /\ ngeo < MaxGeoCalls
    /\ ngeo' = ngeo + 1
    /\ gq' = [gq EXCEPT ![t] = q]
    /\ gknown' = [gknown EXCEPT ![t] = IF q \in DOMAIN stored THEN stored[q] ELSE NoPlace]
    /\ IF GeoLookup(geoFile, q) /= NoPlace
       THEN /\ gret' = [gret EXCEPT ![t] = [called |-> FALSE, place |-> GeoLookup(geoFile, q),
                                           answer |-> NoPlace]]
            /\ glocal' = glocal
            /\ gpc' = gpc
       ELSE /\ gret' = [gret EXCEPT ![t] = [called |-> FALSE, place |-> NoPlace,
                                           answer |-> NoPlace]]
            /\ glocal' = [glocal EXCEPT ![t] = geoFile]
            /\ gpc' = [gpc EXCEPT ![t] = "check"]
    /\ UNCHANGED <<geoFile, lastCallFile, now, gwake, callLog, stored, mandiVars, fetchVars, invVars, pureVars>>

\* lines 366-374: read .last_geocode and sleep for the rest of the interval
GeoRateLimit(t) ==
    /\ gpc[t] = "check"
    /\ gwake' = [gwake EXCEPT ![t] =
                    IF lastCallFile.exists /\ now - lastCallFile.ts < MIN_INTERVAL
                    THEN now + (MIN_INTERVAL - (now - lastCallFile.ts))
                    ELSE now]
    /\ gpc' = [gpc EXCEPT ![t] = "sleep"]
    /\ UNCHANGED <<geoFile, lastCallFile, now, gq, glocal, gknown, gret, callLog, stored,
                   ngeo, mandiVars, fetchVars, invVars, pureVars>>

\* lines 376-379: the outbound call starts once the sleep is over
GeoCall(t) ==
    /\ gpc[t] = "sleep"
    /\ now >= gwake[t]
    /\ callLog' = [callLog EXCEPT ![t] = now]
    /\ gret' = [gret EXCEPT ![t] = [called |-> TRUE, place |-> NoPlace, answer |-> NoPlace]]
    /\ gpc' = [gpc EXCEPT ![t] = "calling"]
    /\ UNCHANGED <<geoFile, lastCallFile, now, gq, glocal, gwake, gknown, stored,
                   ngeo, mandiVars, fetchVars, invVars, pureVars>>

\* lines 380-383 and 401-402: network error, HTTP error or empty result set
GeoFail(t) ==
    /\ gpc[t] = "calling"
    /\ gpc' = [gpc EXCEPT ![t] = "idle"]
    /\ glocal' = [glocal EXCEPT ![t] = <<>>]
    /\ gwake' = [gwake EXCEPT ![t] = 0]
    /\ UNCHANGED <<geoFile, lastCallFile, now, gq, gknown, gret, callLog,
                   stored, ngeo, mandiVars, fetchVars, invVars, pureVars>>

\* lines 384-400: the answer is stored in the loaded copy, the copy replaces the
\* cache file, the time of the call is written; either write may fail silently
GeoSuccess(t, place, cacheWritten, stampWritten) ==
    /\ gpc[t] = "calling"
    /\ glocal' = [glocal EXCEPT ![t] = <<>>]
    /\ gwake' = [gwake EXCEPT ![t] = 0]
    /\ geoFile' = IF cacheWritten THEN GeoPut(glocal[t], gq[t], place) ELSE geoFile
    /\ stored' = IF cacheWritten THEN Put(stored, gq[t], place) ELSE stored
    /\ lastCallFile' = IF stampWritten THEN [exists |-> TRUE, ts |-> now] ELSE lastCallFile
    /\ gret' = [gret EXCEPT ![t] = [called |-> TRUE,
                                    place |-> geocode_return(place, cacheWritten, stampWritten),
                                    answer |-> place]]
    /\ gpc' = [gpc EXCEPT ![t] = "idle"]
    /\ UNCHANGED <<now, gq, gknown, callLog, ngeo, mandiVars, fetchVars, invVars, pureVars>>

\* time passes
Tick ==
    /\ now < MaxTime
    /\ now' = now + 1
    /\ UNCHANGED <<geoFile, lastCallFile, gpc, gq, glocal, gwake, gknown, gret, callLog,
                   stored, ngeo, mandiVars, fetchVars, invVars, pureVars>>

GeoNext ==
    \/ \E t \in Threads, q \in GeoQueries : GeoBegin(t, q)
    \/ \E t \in Threads : GeoRateLimit(t)
    \/ \E t \in Threads : GeoCall(t)
    \/ \E t \in Threads : GeoFail(t)
    \/ \E t \in Threads, place \in {1, 3}, cw \in BOOLEAN, sw \in BOOLEAN :
          GeoSuccess(t, place, cw, sw)
    \/ Tick

-----------------------------------------------------------------------------
(* fetch_prices: the price registry tiers *)

MaxFetch == 2        \* fetch_prices calls per behaviour

\* what _post_prices_datagov_async meets (lines 178-289)
\*   rows         records came back
\*   no_rows      a well-formed answer without records
\*   http_error   raise_for_status raised
\*   timeout      the request raised (timeout, connection error)
\*   unparseable  the body is not JSON
\*   malformed    the body is JSON of another shape (an array, rows that are not objects)
DatagovOutcomes == {"rows", "no_rows", "http_error", "timeout", "unparseable", "malformed"}

\* what _post_prices_async meets (lines 34-76)
CedaOutcomes == {"rows", "no_rows", "http_error", "timeout"}

\* agmarknet_sample.json: absent, a list of rows, or the empty list
SampleFiles == {"absent", "rows", "empty"}

PriceRow(city, modal, tier) == [city |-> city, modal_price |-> modal, tier |-> tier]

\* the result of one tier: it raised, or it returned rows
TierResult(raised, rows) == [raised |-> raised, rows |-> rows]

\* lines 216-234 return [] on an HTTP error, a request error and an unparseable
\* body; line 237 raises AttributeError on a body of another shape
post_prices_datagov(o) ==
    IF o = "malformed" THEN TierResult(TRUE, <<>>)
    ELSE IF o = "rows" THEN TierResult(FALSE, <<PriceRow(N_Mandi, 2000, "datagov")>>)
    ELSE TierResult(FALSE, <<>>)

\* lines 50-65 turn every failure into ValueError
post_prices_ceda(o) ==
    IF o \in {"http_error", "timeout"} THEN TierResult(TRUE, <<>>)
    ELSE IF o = "rows" THEN TierResult(FALSE, <<PriceRow(N_Mandi, 2100, "ceda")>>)
    ELSE TierResult(FALSE, <<>>)

\* lines 111-128: one synthetic row per entry of the geocode cache
RECURSIVE synthetic_rows(_, _, _)
synthetic_rows(entries, salt, commodity) ==
    IF entries = <<>> THEN <<>>
    ELSE <<PriceRow(Head(entries).q,
                    1800 + (Seed(salt, Head(entries).q, Key(commodity)) % 1200),
                    "local")>>
         \o synthetic_rows(Tail(entries), salt, commodity)

\* _local_fallback (lines 94-146): the sample file if it exists, else the
\* rows synthesized from the geocode cache
local_fallback(sample, entries, salt, commodity) ==
    IF sample = "rows" THEN <<PriceRow(N_Wheat, 1900, "local")>>
    ELSE IF sample = "empty" THEN <<>>
    ELSE synthetic_rows(entries, salt, commodity)

FetchEnv(use_datagov, datagov, ceda, sample, commodity) ==
    [use_datagov |-> use_datagov, datagov |-> datagov, ceda |-> ceda,
     sample |-> sample, commodity |-> commodity]

NoEnv == FetchEnv(FALSE, "no_rows", "no_rows", "absent", <<>>)

Returned(rows, tier) == [kind |-> "rows", rows |-> rows, tier |-> tier]
Raised == [kind |-> "raise", rows |-> <<>>, tier |-> "none"]
NoOutcome == [kind |-> "none", rows |-> <<>>, tier |-> "none"]

FetchIdle ==
    /\ fpc = "idle"
    /\ fenv = NoEnv
    /\ ftried = <<>>
    /\ fout = NoOutcome
    /\ nfetch = 0

\* fetch_prices is entered (lines 79-150)
FetchBegin(env) ==
    /\ fpc \in {"idle", "done"}
    /\ nfetch < MaxFetch
    /\ nfetch' = nfetch + 1
    /\ fenv' = env
    /\ ftried' = <<>>
    /\ fout' = NoOutcome
    /\ fpc' = IF env.use_datagov THEN "datagov" ELSE "ceda"
    /\ UNCHANGED <<mandiVars, geoVars, invVars, pureVars>>

\* lines 150-158: the data.gov.in tier; when it raises, the local set is
\* returned if it has rows
FetchDatagov ==
    /\ fpc = "datagov"
    /\ LET r        == post_prices_datagov(fenv.datagov)
           fallback == local_fallback(fenv.sample, geoFile, hashSalt, fenv.commodity)
       IN  IF ~r.raised
           THEN /\ ftried' = Append(ftried, "datagov")
                /\ fout' = Returned(r.rows, "datagov")
                /\ fpc' = "done"
           ELSE /\ ftried' = ftried \o <<"datagov", "local">>
                /\ IF fallback /= <<>>
                   THEN fout' = Returned(fallback, "local") /\ fpc' = "done"
                   ELSE fout' = fout /\ fpc' = "ceda"
    /\ UNCHANGED <<fenv, nfetch, mandiVars, geoVars, invVars, pureVars>>

\* lines 160-167: the CEDA tier
FetchCeda ==
    /\ fpc = "ceda"
    /\ LET r        == post_prices_ceda(fenv.ceda)
           fallback == local_fallback(fenv.sample, geoFile, hashSalt, fenv.commodity)
       IN  IF ~r.raised
           THEN /\ ftried' = Append(ftried, "ceda")
                /\ fout' = Returned(r.rows, "ceda")
                /\ fpc' = "done"
           ELSE /\ ftried' = ftried \o <<"ceda", "local">>
                /\ IF fallback /= <<>>
                   THEN fout' = Returned(fallback, "local") /\ fpc' = "done"
                   ELSE fout' = fout /\ fpc' = "final"
    /\ UNCHANGED <<fenv, nfetch, mandiVars, geoVars, invVars, pureVars>>

\* lines 169-175: the last look at the local set, then ValueError
FetchFinal ==
    /\ fpc = "final"
    /\ LET fallback == local_fallback(fenv.sample, geoFile, hashSalt, fenv.commodity)
       IN  fout' = IF fallback /= <<>> THEN Returned(fallback, "local") ELSE Raised
    /\ ftried' = Append(ftried, "local")
    /\ fpc' = "done"
    /\ UNCHANGED <<fenv, nfetch, mandiVars, geoVars, invVars, pureVars>>

FetchEnvs ==
    {FetchEnv(u, d, c, s, C_Wheat) :
        u \in BOOLEAN, d \in DatagovOutcomes, c \in CedaOutcomes, s \in SampleFiles}

FetchNext ==
    \/ \E env \in FetchEnvs : FetchBegin(env)
    \/ FetchDatagov
    \/ FetchCeda
    \/ FetchFinal

-----------------------------------------------------------------------------
(* overlapping invocations of find_nearest_mandis on the price cache file *)

MaxInv == 3          \* invocations per behaviour

Invocations == {1, 2}

NoKey == [commodity |-> <<>>, norm |-> <<>>]

InvIdle ==
    /\ ipc = [i \in Invocations |-> "idle"]
    /\ icache = [i \in Invocations |-> <<>>]
    /\ ikey = [i \in Invocations |-> NoKey]
    /\ saved = {}
    /\ ninv = 0

\* lines 765-768 and 840-887: the invocation loads the file and finds no cached
\* price for its candidate
InvLoad(i, commodity, name) ==
    /\ ipc[i] = "idle"
    /\ ninv < MaxInv
    /\ ~load_raises(fileShape, <<name>>)
    /\ ~Truthy(cached_lookup(load_cache(fileShape, priceFile), commodity, Norm(name)).val)
    /\ ninv' = ninv + 1
    /\ icache' = [icache EXCEPT ![i] = load_cache(fileShape, priceFile)]
    /\ ikey' = [ikey EXCEPT ![i] = [commodity |-> commodity, norm |-> Norm(name)]]
    /\ ipc' = [ipc EXCEPT ![i] = "loaded"]
    /\ UNCHANGED <<saved, mandiVars, geoVars, fetchVars, pureVars>>

\* lines 970-1017: the lookup completes and its price goes into the in-memory cache
InvResolve(i, out) ==
    /\ ipc[i] = "loaded"
    /\ icache' = [icache EXCEPT ![i] =
                     cache_put(icache[i], ikey[i].commodity, ikey[i].norm,
                               price_entry_of(out, hashSalt, ikey[i].commodity, ikey[i].norm))]
    /\ ipc' = [ipc EXCEPT ![i] = "resolved"]
    /\ UNCHANGED <<ikey, saved, ninv, mandiVars, geoVars, fetchVars, pureVars>>

\* lines 1021-1025: _save_cache rewrites the whole file from the in-memory cache
InvSave(i) ==
    /\ ipc[i] = "resolved"
    /\ priceFile' = icache[i]
    /\ fileShape' = "object"
    /\ saved' = saved \cup {<<Key(ikey[i].commodity), ikey[i].norm>>}
    /\ ipc' = [ipc EXCEPT ![i] = "idle"]
    /\ icache' = [icache EXCEPT ![i] = <<>>]
    /\ ikey' = [ikey EXCEPT ![i] = NoKey]
    /\ UNCHANGED <<phase, req, mandis, cache, results, tasks, missCount, timedOut,
                   atDeadline, ranked, response, hashSalt, ncalls, tiers, ninv,
                   geoVars, fetchVars, pureVars>>

InvNext ==
    \/ \E i \in Invocations, commodity \in {C_Wheat, C_Rice}, name \in {N_Mandi, N_Wheat} :
          InvLoad(i, commodity, name)
    \/ \E i \in Invocations, out \in LookupOutcomes : InvResolve(i, out)
    \/ \E i \in Invocations : InvSave(i)

-----------------------------------------------------------------------------
(* Functions applied on their own: the discovery tiers, the validator, the cap,
   the synthetic price and the forecast *)

MaxFeatures   == 2
MaxCandidates == 8
MaxSeries     == 2
MaxRows       == 2

PureIdle == pfun = "none" /\ parg = <<>> /\ pres = <<>>

\* what a discovery provider can answer: features with or without coordinates,
\* names that normalize alike, places inside and outside the radius
TierRadius   == 10
TierNames    == {N_Mandi, N_mandi, N_Wheat}
TierPlaces   == {NoPlace, 1, 2, 5}
TierFeatures == {Feature(n, p) : n \in TierNames, p \in TierPlaces}
TierAnswers  == UNION {[1..n -> TierFeatures] : n \in 0..MaxFeatures}

\* the geocode cache is a dict: no key twice
GeocacheFiles ==
    {es \in UNION {[1..n -> {GeoEntry(f.name, f.place) : f \in TierFeatures}] : n \in 0..MaxFeatures} :
        \A i, j \in 1..Len(es) : i /= j => es[i].q /= es[j].q}

\* _search_mandis_geoapify (lines 574-671) on the features of the answer
GeoapifySearch ==
    /\ pfun = "none" /\ parg.fn = "search_mandis_geoapify"
    /\ pfun' = parg.fn
    /\ pres' = search_mandis_geoapify(parg.arg, TierRadius)
    /\ UNCHANGED <<parg, mandiVars, geoVars, fetchVars, invVars>>

\* the Overpass block (lines 716-739) on the elements of the answer
OverpassSearch ==
    /\ pfun = "none" /\ parg.fn = "search_mandis_overpass"
    /\ pfun' = parg.fn
    /\ pres' = search_mandis_overpass(parg.arg, TierRadius)
    /\ UNCHANGED <<parg, mandiVars, geoVars, fetchVars, invVars>>

\* the geocode-cache block (lines 743-761) on the entries of the file
GeocacheSearch ==
    /\ pfun = "none" /\ parg.fn = "search_mandis_geocache"
    /\ pfun' = parg.fn
    /\ pres' = search_mandis_geocache(parg.arg, TierRadius)
    /\ UNCHANGED <<parg, mandiVars, geoVars, fetchVars, invVars>>

N_Haat        == <<"H", "a", "a", "t">>
N_Tea         == <<"T", "e", "a">>
N_MandiShop   == <<"M", "a", "n", "d", "i", " ", "S", "h", "o", "p">>
N_Supermarket == <<"S", "u", "p", "e", "r", "m", "a", "r", "k", "e", "t">>
N_Depot       == <<"D", "e", "p", "o", "t">>

ValidatorNames ==
    {<<>>, N_Mandi, N_KMandi, N_Shop, N_Haat, N_Tea, N_MandiShop, N_Supermarket, N_Depot}

\* _is_valid_market_name (lines 772-793) on a candidate's name
Validate ==
    /\ pfun = "none" /\ parg.fn = "is_valid_market_name"
    /\ pfun' = parg.fn
    /\ pres' = is_valid_market_name(parg.arg)
    /\ UNCHANGED <<parg, mandiVars, geoVars, fetchVars, invVars>>

Digits == <<"1", "2", "3", "4", "5", "6", "7", "8", "9">>

\* "Haat 1", "Haat 2", ...
HaatName(i) == N_Haat \o <<" ", Digits[i]>>

\* a Geoapify answer of k markets and a shop, all within the radius, the
\* distances in an order that the shift varies
CapFeatures(k, shift) ==
    <<Feature(N_Shop, 1)>> \o
    [i \in 1..k |-> Feature(HaatName(i), ((i + shift) % 4) + 1)]

\* validation, cap and the hit/miss partition over an empty price cache
\* (lines 795-887) on the candidates of a tier
Cap ==
    /\ pfun = "none" /\ parg.fn = "cap"
    /\ pfun' = parg.fn
    /\ LET capped == cap_candidates(parg.arg)
       IN  pres' = [mandis  |-> capped,
                    lookups |-> Len(to_query_of(capped, 1, <<>>,
                                                Request(C_Wheat, TierRadius, 5, 0, 0)))]
    /\ UNCHANGED <<parg, mandiVars, geoVars, fetchVars, invVars>>

\* the salts two processes can draw for the hash of str
ProcessSalts == {1, 2}

\* the synthetic placeholder (lines 974-984) for one market and commodity,
\* computed by a process and again by the process after a restart
Synthesize(salt, salt_after) ==
    /\ pfun = "none" /\ parg.fn = "synthetic"
    /\ pfun' = parg.fn
    /\ pres' = [salts |-> <<salt, salt_after>>,
                modal |-> <<synthetic_modal(salt, parg.arg.commodity, Norm(parg.arg.name)),
                            synthetic_modal(salt_after, parg.arg.commodity,
                                            Norm(parg.arg.name))>>]
    /\ UNCHANGED <<parg, mandiVars, geoVars, fetchVars, invVars>>

\* line 1042
horizon == 14

\* the date of a row whose "date" is missing or does not parse: NaT after
\* pd.to_datetime(errors="coerce") (line 1038)
NoDate == 0

\* the day datetime.utcnow() falls on (line 1062)
Today == 10

\* a row of the price history: the day of its date and its modal price
HistoryRow(date, modal) == [date |-> date, modal_price |-> modal]

HistoryRows == {HistoryRow(d, m) : d \in {NoDate, 1, 2}, m \in {1900, 2000}}

Histories == UNION {[1..n -> HistoryRows] : n \in 0..MaxSeries}

\* what ARIMA(...).fit().forecast(steps=horizon) does (lines 1048-1050): it
\* raises, or it gives horizon values
ArimaOutcomes ==
    {[raised |-> TRUE, vals |-> <<>>]} \cup
    {[raised |-> FALSE, vals |-> [i \in 1..horizon |-> v + 10 * i]] : v \in {1800, 2100}}

\* df.sort_values("date") (line 1039): ascending and stable, the rows without
\* a date (NaT) last
RECURSIVE sort_values(_)
sort_values(rows) ==
    IF rows = <<>> THEN <<>>
    ELSE LET e  == rows[Len(rows)]
             s  == sort_values(SubSeq(rows, 1, Len(rows) - 1))
             lo == {i \in 1..Len(s) :
                       \/ e.date = NoDate
                       \/ s[i].date /= NoDate /\ s[i].date <= e.date}
         IN  SubSeq(s, 1, Cardinality(lo)) \o <<e>> \o SubSeq(s, Cardinality(lo) + 1, Len(s))

ForecastResult(raised, rows) == [raised |-> raised, rows |-> rows]

\* lines 1036-1067: the forecast of a history that has rows
forecast_rows(prices, fit) ==
    LET df    == sort_values(prices)
        last  == df[Len(df)].modal_price
        vals  == IF fit.raised THEN [i \in 1..horizon |-> last] ELSE fit.vals
        start == IF df[Len(df)].date /= NoDate THEN df[Len(df)].date ELSE Today
    IN  ForecastResult(FALSE, [i \in 1..horizon |->
                                  HistoryRow(start + i, vals[i])])

\* a forecast without the test of line 1034: df["modal_price"] of an empty
\* frame raises KeyError
forecast_prices_unguarded(prices, fit) ==
    IF prices = <<>> THEN ForecastResult(TRUE, <<>>) ELSE forecast_rows(prices, fit)

\* lines 1032-1067
forecast_prices(prices, fit) ==
    IF prices = <<>> THEN ForecastResult(FALSE, <<>>) ELSE forecast_rows(prices, fit)

\* forecast_prices on a history, the fit ending as fit does
Forecast(fit) ==
    /\ pfun = "none" /\ parg.fn = "forecast_prices"
    /\ pfun' = parg.fn
    /\ pres' = [fit |-> fit, out |-> forecast_prices(parg.arg, fit)]
    /\ UNCHANGED <<parg, mandiVars, geoVars, fetchVars, invVars>>

\* line 591
attempts == 3

\* what the places provider does with a request: a body, an HTTP error status,
\* or no response within the time limit
ProviderReplies == {"ok", "400", "429", "500", "timeout"}

\* the retry loop of _search_mandis_geoapify (lines 595-635; the loop of
\* search_places_geoapify, lines 455-493, is the same): the parameters of the
\* requests made, in order, and whether one of them got a body
RECURSIVE geoapify_loop(_, _)
geoapify_loop(attempt, replies) ==
    IF attempt >= attempts THEN [sent |-> <<>>, ok |-> FALSE]
    ELSE LET params == [categories |-> attempt <= 1, q |-> attempt = 0]
             reply  == replies[attempt + 1]
             later  == geoapify_loop(attempt + 1, replies)
         IN  IF reply = "ok" THEN [sent |-> <<params>>, ok |-> TRUE]
             ELSE IF reply \in {"400", "timeout"}
                  THEN [sent |-> <<params>> \o later.sent, ok |-> later.ok]
                  ELSE [sent |-> <<params>>, ok |-> FALSE]

\* a tier that asks the provider once
geoapify_once(has_key, replies, features) ==
    [sent       |-> IF has_key THEN <<[categories |-> TRUE, q |-> TRUE]>> ELSE <<>>,
     candidates |-> IF has_key /\ replies[1] = "ok"
                    THEN search_mandis_geoapify(features, TierRadius) ELSE <<>>,
     raised     |-> FALSE]

\* _search_mandis_geoapify (lines 574-671): no request without a key; the
\* candidates of the body if a request got one; the try of line 581 lets no
\* exception out
geoapify_requests(has_key, replies, features) ==
    LET loop == IF has_key THEN geoapify_loop(0, replies) ELSE [sent |-> <<>>, ok |-> FALSE]
    IN  [sent       |-> loop.sent,
         candidates |-> IF loop.ok THEN search_mandis_geoapify(features, TierRadius) ELSE <<>>,
         raised     |-> FALSE]

GeoapifyRequests ==
    /\ pfun = "none" /\ parg.fn = "geoapify_requests"
    /\ pfun' = parg.fn
    /\ pres' = geoapify_requests(parg.arg.has_key, parg.arg.replies,
                                 <<Feature(N_Mandi, 1)>>)
    /\ UNCHANGED <<parg, mandiVars, geoVars, fetchVars, invVars>>

\* strftime('%Y-%m-%d') (line 112) and date().isoformat() (line 976): the
\* digits of the date string, in order (the dashes stand at fixed places)
IsoDate(y, m, d) ==
    <<y \div 1000, (y \div 100) % 10, (y \div 10) % 10, y % 10,
      m \div 10, m % 10, d \div 10, d % 10>>

\* a > b for two strings, as the tuple comparison of line 918 compares dates
RECURSIVE StrGreater(_, _)
StrGreater(a, b) ==
    IF a = <<>> THEN FALSE
    ELSE IF b = <<>> THEN TRUE
    ELSE IF Head(a) /= Head(b) THEN Head(a) > Head(b)
    ELSE StrGreater(Tail(a), Tail(b))

\* the dates of the rows: none, or a date string as the code writes them
TradeDates == {<<>>, IsoDate(2025, 1, 31), IsoDate(2025, 2, 1), IsoDate(2025, 10, 9)}

\* a row of fetch_prices as _fetch_for_market reads it: the market, the modal
\* price and the date string
MarketRow(city, modal, date) == [city |-> city, modal_price |-> modal, date |-> date]

MarketRows ==
    {MarketRow(c, m, d) : c \in {N_Mandi, N_KMandi, N_Wheat, <<>>}, m \in {0, 2000},
                          d \in TradeDates}

\* lines 899-915: the score of a row and its date
row_key(norm_req, r) ==
    LET r_norm == Norm(r.city)
    IN  <<(IF /\ norm_req /= <<>> /\ r_norm /= <<>>
              /\ (Contains(norm_req, r_norm) \/ Contains(r_norm, norm_req))
           THEN 100 ELSE 0)
          + (IF r.modal_price > 0 THEN 10 ELSE 0),
          r.date>>

\* a selection by score alone
RECURSIVE best_by_score(_, _)
best_by_score(name, rows) ==
    IF Len(rows) = 1 THEN rows[1]
    ELSE LET b == best_by_score(name, Tail(rows))
         IN  IF row_key(Norm(name), b)[1] > row_key(Norm(name), Head(rows))[1]
             THEN b ELSE Head(rows)

\* lines 918-920: candidates[0] after the stable sort by (score, date),
\* descending: the earliest row among those with the greatest key
RECURSIVE best_row(_, _)
best_row(name, rows) ==
    IF Len(rows) = 1 THEN rows[1]
    ELSE LET b  == best_row(name, Tail(rows))
             kb == row_key(Norm(name), b)
             kh == row_key(Norm(name), Head(rows))
         IN  IF kb[1] > kh[1] \/ (kb[1] = kh[1] /\ StrGreater(kb[2], kh[2]))
             THEN b ELSE Head(rows)

FetchBest ==
    /\ pfun = "none" /\ parg.fn = "best_row"
    /\ pfun' = parg.fn
    /\ pres' = best_row(N_Mandi, parg.arg)
    /\ UNCHANGED <<parg, mandiVars, geoVars, fetchVars, invVars>>

\* line 947: rows_state[:50]
StateRowsGeocoded == 50

\* a region-wide row with what geocode_market_osm and _haversine_km give for
\* its market: no coordinates, or the distance to the origin in km
StateRow(located, d) == [located |-> located, d |-> d]

StateRowLists ==
    UNION {[1..n -> {StateRow(FALSE, 0), StateRow(TRUE, 0), StateRow(TRUE, 5),
                     StateRow(TRUE, 7)}] : n \in 0..MaxRows}
    \cup {[i \in 1..(k + 1) |-> IF i <= k THEN StateRow(TRUE, 7) ELSE StateRow(TRUE, 5)] :
             k \in {StateRowsGeocoded - 1, StateRowsGeocoded}}

\* lines 945-955: the loop over rows_state[:50]; nearest is the index of the
\* row held (0: None), `nearest_dist or 1e9' is 1e9 for None and for 0.0
RECURSIVE nearest_state_row(_, _, _, _)
nearest_state_row(rows, i, nearest, nearest_dist) ==
    IF i > Min(Len(rows), StateRowsGeocoded)
    THEN [nearest |-> nearest, geocoded |-> i - 1]
    ELSE IF ~rows[i].located THEN nearest_state_row(rows, i + 1, nearest, nearest_dist)
    ELSE IF nearest = 0 \/ nearest_dist = 0 \/ rows[i].d < nearest_dist
         THEN nearest_state_row(rows, i + 1, i, rows[i].d)
         ELSE nearest_state_row(rows, i + 1, nearest, nearest_dist)

FetchNearest ==
    /\ pfun = "none" /\ parg.fn = "nearest_state_row"
    /\ pfun' = parg.fn
    /\ pres' = nearest_state_row(parg.arg, 1, 0, 0)
    /\ UNCHANGED <<parg, mandiVars, geoVars, fetchVars, invVars>>

Call(fn, arg) == [fn |-> fn, arg |-> arg]

\* the calls: each function with every input of its bounded set
PureCalls ==
    \/ \E features \in TierAnswers : parg = Call("search_mandis_geoapify", features)
    \/ \E elements \in TierAnswers : parg = Call("search_mandis_overpass", elements)
    \/ \E entries \in GeocacheFiles : parg = Call("search_mandis_geocache", entries)
    \/ \E name \in ValidatorNames : parg = Call("is_valid_market_name", name)
    \/ \E k \in 5..MaxCandidates, shift \in 0..3 :
          parg = Call("cap", search_mandis_geoapify(CapFeatures(k, shift), TierRadius))
    \/ \E commodity \in {C_Wheat, C_Rice}, name \in {N_Mandi, N_Wheat} :
          parg = Call("synthetic", [commodity |-> commodity, name |-> name])
    \/ \E prices \in Histories : parg = Call("forecast_prices", prices)
    \/ \E has_key \in BOOLEAN, replies \in [1..attempts -> ProviderReplies] :
          parg = Call("geoapify_requests", [has_key |-> has_key, replies |-> replies])
    \/ \E rows \in UNION {[1..n -> MarketRows] : n \in 1..MaxRows} :
          parg = Call("best_row", rows)
    \/ \E rows \in StateRowLists : parg = Call("nearest_state_row", rows)

PureNext ==
    \/ GeoapifySearch
    \/ OverpassSearch
    \/ GeocacheSearch
    \/ Validate
    \/ Cap
    \/ \E salt \in ProcessSalts, salt_after \in ProcessSalts : Synthesize(salt, salt_after)
    \/ \E fit \in ArimaOutcomes : Forecast(fit)
    \/ GeoapifyRequests
    \/ FetchBest
    \/ FetchNearest

-----------------------------------------------------------------------------
(* Specifications *)

\* calls of the endpoint, one at a time, over a geocode cache that does not change
Init ==
    /\ MandiInit /\ fileShape = "object"
    /\ GeoIdle /\ geoFile \in InitialGeoFiles
    /\ FetchIdle /\ InvIdle /\ PureIdle

Next == MandiNext

Spec == Init /\ [][Next]_vars

\* concurrent geocoding threads, starting with an empty geocode cache
GeoInit ==
    /\ MandiInit /\ priceFile = <<>> /\ fileShape = "object"
    /\ GeoIdle /\ geoFile = <<>>
    /\ FetchIdle /\ InvIdle /\ PureIdle

SpecGeo == GeoInit /\ [][GeoNext]_vars

\* one caller of geocode_market_osm, one call after the other
GeoSeqNext ==
    \/ \E q \in GeoQueries : GeoBegin(1, q)
    \/ GeoRateLimit(1)
    \/ GeoCall(1)
    \/ GeoFail(1)
    \/ \E place \in {1, 3}, cw \in BOOLEAN, sw \in BOOLEAN : GeoSuccess(1, place, cw, sw)
    \/ Tick

SpecGeoSeq == GeoInit /\ [][GeoSeqNext]_vars

\* calls of the endpoint over a price cache file in any condition and an empty
\* geocode cache
StoresInit ==
    /\ MandiInit
    /\ fileShape \in FileShapes
    /\ fileShape /= "object" => priceFile = <<>>
    /\ GeoIdle /\ geoFile = <<>>
    /\ FetchIdle /\ InvIdle /\ PureIdle

SpecStores == StoresInit /\ [][Next]_vars

\* calls of fetch_prices, with or without entries in the geocode cache
FetchInit ==
    /\ MandiInit /\ priceFile = <<>> /\ fileShape = "object"
    /\ GeoIdle /\ geoFile \in GeoFilesKnown
    /\ FetchIdle /\ InvIdle /\ PureIdle

SpecFetch == FetchInit /\ [][FetchNext]_vars

\* two invocations of find_nearest_mandis that overlap in time
InvInit ==
    /\ MandiInit /\ priceFile = <<>> /\ fileShape \in {"absent", "object"}
    /\ GeoIdle /\ geoFile = <<>>
    /\ FetchIdle /\ InvIdle /\ PureIdle

SpecInv == InvInit /\ [][InvNext]_vars

\* one application of a function of discovery, validation, pricing or
\* forecasting to an input of its bounded set
PureInit ==
    /\ MandiInit /\ priceFile = <<>> /\ fileShape = "object"
    /\ GeoIdle /\ geoFile = <<>>
    /\ FetchIdle /\ InvIdle
    /\ pfun = "none" /\ pres = <<>> /\ PureCalls

SpecPure == PureInit /\ [][PureNext]_vars

-----------------------------------------------------------------------------
(* Properties *)

Abs(x) == IF x < 0 THEN 0 - x ELSE x

Entries(rs) == {rs[i] : i \in 1..Len(rs)}

\* C1: every entry returned by find_nearest_mandis has distance_km <= radius_km,
\* whatever tier found the candidate and wherever its price came from
C1_WithinRadius ==
    \A e \in Entries(ranked) : e.distance_km <= req.radius_km * 100

\* a returned list with an entry exactly at the radius, one priced from the cache
\* and one priced by a lookup
C1_Witness ==
    /\ phase = "returned"
    /\ \E e \in Entries(ranked) : e.distance_km = req.radius_km * 100
    /\ \E e \in Entries(ranked) : e.via /= "fresh"
    /\ \E e \in Entries(ranked) : e.via = "fresh" /\ e.raw.fields.origin = "synthetic"

\* C2: the returned list is sorted by distance_km ascending, and adjacent entries
\* of equal distance_km are in descending order of effective_price
C2_Sorted ==
    \A i \in 1..(Len(ranked) - 1) :
        /\ ranked[i].distance_km <= ranked[i + 1].distance_km
        /\ ranked[i].distance_km = ranked[i + 1].distance_km
              => ranked[i].effective_price >= ranked[i + 1].effective_price

\* two entries of equal distance whose effective prices differ and that were
\* appended in the other order
C2_Witness ==
    /\ phase = "returned"
    /\ Len(ranked) >= 2
    /\ Len(results) >= 2
    /\ ranked[1].distance_km = ranked[2].distance_km
    /\ ranked[1].effective_price > ranked[2].effective_price
    /\ results[1] = ranked[2]

\* C3 as stated: effective_price equals modal_price - distance_km*(fuel/10) - fees/10
\* exactly, computed from the entry's own fields
C3_ExactFromFields ==
    \A e \in Entries(ranked) :
        e.effective_price * 5000 =
            e.modal_price * 500000 - (e.distance_km * 5) * req.fuel_rate_per_ton_km
              - req.mandi_fees * 500

\* C3 amended: effective_price is modal_price - d*(fuel/10) - fees/10 rounded to two
\* decimals, d being the unrounded distance to the entry's coordinates
C3_RoundedFromDistance ==
    \A e \in Entries(ranked) :
        2 * Abs(e.effective_price * 5000
                  - (e.modal_price * 500000
                       - haversine_km(e.place) * req.fuel_rate_per_ton_km
                       - req.mandi_fees * 500)) <= 5000

\* a returned list with a cached and a looked-up entry, one of them at a distance
\* that is not a multiple of 0.01 km, and the worked example 2000 - 10*0.005 = 1999.95
C3_Witness ==
    /\ phase = "returned"
    /\ req.fuel_rate_per_ton_km > 0
    /\ \E e \in Entries(ranked) : e.distance_km * 5 /= haversine_km(e.place)
    /\ \E e \in Entries(ranked) : e.via /= "fresh"
    /\ \E e \in Entries(ranked) : e.via = "fresh"

C3_Example ==
    /\ phase = "returned"
    /\ req.fuel_rate_per_ton_km = 5 /\ req.mandi_fees = 0
    /\ \E e \in Entries(ranked) :
          e.modal_price = 2000 /\ e.distance_km = 1000 /\ e.effective_price = 199995

\* C4: a price stored for (today, commodity A, market X) is never the cached price
\* of a lookup for (today, commodity B, market X) with another commodity key B
C4_CacheIsolation ==
    \A e \in Entries(results) :
        (e.via /= "fresh" /\ e.raw.fields.present /\ e.raw.fields.for_norm = Norm(e.city))
            => e.raw.fields.for_ck = Key(req.commodity)

\* a market is looked up afresh although the cache holds a price of that market
\* for another commodity
C4_Witness ==
    /\ phase = "returned"
    /\ \E e \in Entries(results) :
          /\ e.via = "fresh"
          /\ \E k \in DOMAIN priceFile :
                /\ k /= Key(req.commodity)
                /\ Norm(e.city) \in DOMAIN priceFile[k].markets

\* C5: a legacy flat entry is a cache hit only for its recorded commodity, and a
\* cache write never alters a legacy entry (a dict with price fields gets no market key)
C5_LegacyRule ==
    /\ \A e \in Entries(results) :
          e.via = "legacy" => Key(e.raw.fields.commodity) = Key(req.commodity)
    /\ \A k \in DOMAIN cache : cache[k].fields.present => DOMAIN cache[k].markets = {}
    /\ \A k \in DOMAIN priceFile :
          priceFile[k].fields.present => DOMAIN priceFile[k].markets = {}

RECURSIVE FreshInOrder(_, _)
FreshInOrder(rs, i) ==
    IF i > MAX_MARKETS_TO_QUERY THEN <<>>
    ELSE (IF \E e \in Entries(rs) : e.via = "fresh" /\ e.idx = i
          THEN <<CHOOSE e \in Entries(rs) : e.via = "fresh" /\ e.idx = i>>
          ELSE <<>>)
         \o FreshInOrder(rs, i + 1)

SubmissionOrder(rs) ==
    FilterSeq(rs, {e \in Entries(rs) : e.via /= "fresh"}) \o FreshInOrder(rs, 1)

\* C8: the returned list is the same whatever the order in which the lookups
\* complete: it is the ranking of the entries taken in submission order
C8_OrderIndependent ==
    phase = "returned" => ranked = rank(SubmissionOrder(results), req.top_n)

\* C9: the lookups running at any moment are at most min(6, cache-miss candidates)
C9_BoundedLookups ==
    Cardinality(Running) <= Min(6, missCount)

\* every lookup of a call with several cache misses runs at the same time
C9_Witness ==
    /\ phase = "fetching"
    /\ missCount >= 2
    /\ Cardinality(Running) = Min(6, missCount)

\* C6: once coordinates are stored for a query, a later call for that query
\* returns them without an outbound call
C6_RoundTrip ==
    \A t \in Threads :
        gknown[t] /= NoPlace => (~gret[t].called /\ gret[t].place = gknown[t])

\* C10: outbound geocoding calls of different threads start at least 1 s apart
C10_Serialized ==
    \A a \in Threads, b \in Threads :
        (a /= b /\ callLog[a] >= 0 /\ callLog[b] >= 0)
            => Abs(callLog[a] - callLog[b]) >= MIN_INTERVAL

\* C11: for one sequential caller, an outbound geocoding call starts at least 1 s
\* after the previous outbound call, whatever the outcome of that call
C11_Spacing ==
    [][(gpc[1] = "sleep" /\ gpc'[1] = "calling" /\ callLog[1] >= 0)
          => callLog'[1] - callLog[1] >= MIN_INTERVAL]_vars

\* C12: when every call has returned, every query whose coordinates a call wrote
\* to the geocode cache is in the cache file
C12_NoLostGeocode ==
    (\A t \in Threads : gpc[t] = "idle")
        => \A q \in DOMAIN stored : GeoLookup(geoFile, q) /= NoPlace

\* C13: when every invocation has returned, every (commodity, market) price an
\* invocation persisted is in the price cache file
C13_NoLostPrice ==
    (\A i \in Invocations : ipc[i] = "idle")
        => \A k \in saved :
              /\ k[1] \in DOMAIN priceFile
              /\ k[2] \in DOMAIN priceFile[k[1]].markets

\* C14: when the primary registry is down (HTTP error, timeout, unparseable body)
\* and the secondary registry or the local set has rows, fetch_prices does not
\* return an empty list
C14_NoEmptyOnOutage ==
    ( /\ fpc = "done"
      /\ fenv.use_datagov
      /\ fenv.datagov \in {"http_error", "timeout", "unparseable"}
      /\ \/ post_prices_ceda(fenv.ceda).rows /= <<>>
         \/ local_fallback(fenv.sample, geoFile, hashSalt, fenv.commodity) /= <<>> )
        => ~(fout.kind = "rows" /\ fout.rows = <<>>)

InSeq(x, sq) == \E i \in 1..Len(sq) : sq[i] = x

\* C15: the local set is returned only after the primary registry (when it is
\* enabled) and the secondary registry have both been tried
C15_LocalLast ==
    (fpc = "done" /\ fout.kind = "rows" /\ fout.tier = "local")
        => /\ InSeq("ceda", ftried)
           /\ fenv.use_datagov => InSeq("datagov", ftried)

\* C16: fetch_prices never ends with an exception
C16_NoException ==
    fpc = "done" => fout.kind /= "raise"

\* C17: whatever the price cache file holds, find_nearest_mandis does not raise
C17_TolerantLoad ==
    phase /= "raised"

\* C18: geocode_market_osm returns the provider's coordinates whether or not the
\* cache and the time stamp could be written, returns None when the provider
\* gave none, and a call that returns None leaves the geocode cache as it was
C18_NeverRaises ==
    /\ [](\A t \in Threads :
            (gpc[t] = "idle" /\ gret[t].called) => gret[t].place = gret[t].answer)
    /\ [][\A t \in Threads :
            (gpc[t] = "calling" /\ gpc'[t] = "idle" /\ gret'[t].place = NoPlace)
                => geoFile' = geoFile]_vars

\* one call got coordinates although neither file could be written, another
\* call failed and returned None
C18_Witness ==
    /\ geoFile = <<>>
    /\ ~lastCallFile.exists
    /\ \E t \in Threads, u \in Threads :
          /\ t /= u
          /\ gpc[t] = "idle" /\ gret[t].called /\ gret[t].place /= NoPlace
          /\ gpc[u] = "idle" /\ gret[u].called /\ gret[u].place = NoPlace

C20_TierOrder ==
    /\ tiers.overpass_queried => tiers.geoapify = 0
    /\ tiers.geocache_used => (tiers.geoapify = 0 /\ tiers.overpass = 0)
    /\ (mandis /= <<>> /\ tiers.geoapify > 0) => (tiers.overpass = 0 /\ tiers.geocache = 0)

\* a call whose candidates come from the geocode cache after Geoapify and
\* Overpass were both asked and yielded none
C20_Witness ==
    /\ phase = "returned"
    /\ tiers.overpass_queried
    /\ tiers.geocache_used
    /\ tiers.geocache > 0
    /\ ranked /= <<>>

\* C21: a lookup that resolved to nothing (no provider gave a usable row) writes
\* nothing to the price cache
C21_NothingOnAbsent ==
    [][\A i \in 1..Len(tasks) :
          (/\ phase = "fetching"
           /\ tasks[i].st = "finished"
           /\ ~tasks[i].out.found
           /\ i \in 1..Len(tasks')
           /\ tasks'[i].st = "consumed")
          => cache' = cache]_vars

\* a feature with coordinates within the radius
Located(f) == f.place /= NoPlace /\ haversine_km(f.place) <= TierRadius * 500

\* C22: of the features of a provider's answer that share a normalized name, the
\* tier retains the nearest, and a name with a located occurrence within the
\* radius is not lost
C22_KeepsNearest ==
    pfun \in {"search_mandis_geoapify", "search_mandis_overpass"} =>
        \A i \in 1..Len(parg.arg) :
            (Norm(parg.arg[i].name) /= <<>> /\ Located(parg.arg[i])) =>
                \E k \in 1..Len(pres) :
                    /\ Norm(pres[k].name) = Norm(parg.arg[i].name)
                    /\ pres[k].distance_km <= round2(haversine_km(parg.arg[i].place))

\* a name that contains one of the tokens, as the validator looks for them
HasToken(tokens, n) == \E i \in 1..Len(tokens) : Contains(tokens[i], Lower(Strip(n)))

BlacklistedMemo == ([n \in KnownStrings |-> HasToken(blacklist_tokens, n)]) @@ <<>>

C24_AcceptOutright ==
    (pfun = "is_valid_market_name" /\ HasToken(accept_tokens, parg.arg)) => pres = TRUE

\* C24: a name with a marketplace token is accepted, whatever its length, unless
\* it also contains a blacklisted token
C24_AcceptUnlessBlacklisted ==
    (/\ pfun = "is_valid_market_name"
     /\ HasToken(accept_tokens, parg.arg)
     /\ ~HasToken(blacklist_tokens, parg.arg)) => pres = TRUE

\* a name shorter than five characters, accepted for its marketplace token
C24_Witness ==
    /\ pfun = "is_valid_market_name"
    /\ parg.arg = N_Haat
    /\ pres = TRUE

\* a candidate the validation step lets through
Accepted(m) == is_valid_market_name(m.name) \/ m.source = "geocache"

C26_TopN ==
    phase = "returned" =>
        /\ Len(ranked) <= req.top_n
        /\ Len(ranked) = Min(req.top_n, Len(results))
        /\ Entries(ranked) \subseteq Entries(results)
        /\ \A e \in Entries(results) \ Entries(ranked) :
              \A k \in Entries(ranked) : ~KeyLess(e, k, TRUE)

\* a call with more results than top_n
C26_Witness ==
    /\ phase = "returned"
    /\ Len(results) > req.top_n
    /\ ranked /= <<>>

\* C27: two runs of the program synthesize the same modal price for the same
\* market and commodity
C27_Deterministic ==
    pfun = "synthetic" => pres.modal[1] = pres.modal[2]

\* the tag of the tier a search function implements
TierTag(fn) ==
    CASE fn = "search_mandis_geoapify" -> "geoapify"
      [] fn = "search_mandis_overpass" -> "overpass"
      [] fn = "search_mandis_geocache" -> "geocache"

\* C28: every candidate of a discovery tier has its distance and the tag of the
\* tier that produced it, and the tier's list ascends by distance
C28_TaggedAndSorted ==
    pfun \in {"search_mandis_geoapify", "search_mandis_overpass", "search_mandis_geocache"} =>
        /\ \A k \in 1..Len(pres) :
              pres[k].distance_km /= -1 /\ pres[k].source = TierTag(pfun)
        /\ \A k \in 1..(Len(pres) - 1) : pres[k].distance_km <= pres[k + 1].distance_km

\* C30: forecast_prices of an empty series returns an empty list and does not raise
C30_EmptySeries ==
    (pfun = "forecast_prices" /\ parg.arg = <<>>) =>
        (~pres.out.raised /\ pres.out.rows = <<>>)

\* a forecast of the empty series
C30_Witness ==
    /\ pfun = "forecast_prices"
    /\ parg.arg = <<>>

\* C34: every candidate that passed validation and the cap has exactly one entry
\* in the list that is ranked
C34_OneEntryEach ==
    phase = "returned" =>
        \A i \in 1..Len(mandis) :
            Cardinality({k \in 1..Len(results) : results[k].idx = i}) = 1

\* C37: when the deadline of agmarknet_nearby fires, the endpoint has returned to
\* its caller, whether or not find_nearest_mandis has finished
C37_UnblockedAtDeadline ==
    timedOut => phase = "returned"

C39_CoordinatorOnly ==
    [][/\ cache' /= cache =>
            \/ phase /= "fetching"
            \/ \E i \in 1..Len(tasks) :
                  /\ tasks[i].st = "finished"
                  /\ i \in 1..Len(tasks') /\ tasks'[i].st = "consumed"
       /\ priceFile' /= priceFile =>
            /\ phase = "fetching" /\ phase' = "returned"
            /\ \A i \in 1..Len(tasks) : tasks[i].st = "consumed"]_vars

\* a call that looked prices up and saved them on return
C39_Witness ==
    /\ phase = "returned"
    /\ tasks /= <<>>
    /\ priceFile = cache
    /\ cache /= <<>>

C31_Requests(retried) ==
    pfun = "geoapify_requests" =>
        LET n == Len(pres.sent)
        IN  /\ n <= 3
            /\ parg.arg.has_key => n >= 1
            /\ \A k \in 1..n : pres.sent[k] = [categories |-> k <= 2, q |-> k = 1]
            /\ \A k \in 1..n : (k < 3 /\ parg.arg.replies[k] \in retried) => n > k
            /\ ~pres.raised
            /\ (\A k \in 1..n : parg.arg.replies[k] /= "ok") => pres.candidates = <<>>

RowScore(r) ==
    (IF /\ Norm(r.city) /= <<>>
        /\ (Contains(Norm(N_Mandi), Norm(r.city)) \/ Contains(Norm(r.city), Norm(N_Mandi)))
     THEN 100 ELSE 0)
    + (IF r.modal_price > 0 THEN 10 ELSE 0)

\* the calendar day a date string names, counted in days of 31-day months; 0
\* for a row without a date
DayOf(date) ==
    IF date = <<>> THEN 0
    ELSE LET y == 1000 * date[1] + 100 * date[2] + 10 * date[3] + date[4]
             m == 10 * date[5] + date[6]
             d == 10 * date[7] + date[8]
         IN  (12 * y + m) * 31 + d

C33_NearestOfFirst50 ==
    pfun = "nearest_state_row" =>
        LET first == {i \in 1..Min(Len(parg.arg), 50) : parg.arg[i].located}
        IN  /\ pres.geocoded <= 50
            /\ first = {} => pres.nearest = 0
            /\ first /= {} =>
                  /\ pres.nearest \in first
                  /\ \A i \in first : parg.arg[pres.nearest].d <= parg.arg[i].d

\* the dates of a series that are usable
Dated(prices) == {prices[i].date : i \in 1..Len(prices)} \ {NoDate}

\* C35: the forecast of a non-empty series has 14 points on consecutive days, the
\* first the day after the latest date of the series, or after today if the
\* series has no usable date
C35_DatesFollowLatest ==
    (pfun = "forecast_prices" /\ parg.arg /= <<>>) =>
        LET last == IF Dated(parg.arg) = {} THEN Today
                    ELSE CHOOSE d \in Dated(parg.arg) : \A e \in Dated(parg.arg) : e <= d
        IN  /\ Len(pres.out.rows) = 14
            /\ \A i \in 1..Len(pres.out.rows) : pres.out.rows[i].date = last + i

\* C36: when the fit or the forecast raises, the 14 values are the modal price
\* of an observation with the latest date, and nothing is raised to the caller
C36_CarryLatestForward ==
    (pfun = "forecast_prices" /\ Dated(parg.arg) /= {} /\ pres.fit.raised) =>
        /\ ~pres.out.raised
        /\ Len(pres.out.rows) = 14
        /\ \E k \in 1..Len(parg.arg) :
              /\ parg.arg[k].date /= NoDate
              /\ \A e \in Dated(parg.arg) : e <= parg.arg[k].date
              /\ \A i \in 1..Len(pres.out.rows) :
                    pres.out.rows[i].modal_price = parg.arg[k].modal_price

====
